---- MODULE Spec2Model ----
(***************************************************************************)
(* State-machine model of src/expense_tracker.py: one run of the script    *)
(* over one uploaded table.  The script is straight-line code; `pc` is the *)
(* position of the run, and each action is one section of the script.      *)
(*                                                                         *)
(* Encoding of pandas values:                                              *)
(*   - a nullable datetime / numeric cell is a sequence of length <= 1:    *)
(*     <<>> is NaT / NaN, <<v>> is the value v;                            *)
(*   - a timestamp is the ordinal of its day in 2024 (1 = 2024-01-01);     *)
(*   - a missing text cell is the string "NaN" (read_csv's null);          *)
(*   - a mean is the exact fraction [num, den];                            *)
(*   - a z-score is kept exactly as sign and square: z = sgn*sqrt(num/den).*)
(*                                                                         *)
(* Left out: the optional "orders" column (lines 70-71), the derived       *)
(* column "week" (line 77), the charts, and the tables no property reads   *)
(* (type-wise trend 183, histogram and boxplot 206-210, pie 236, user      *)
(* table 248).  Arithmetic is exact; floating-point rounding is not        *)
(* modelled.                                                               *)
(***************************************************************************)
EXTENDS Integers, Sequences, FiniteSets

VARIABLES
    pc,               \* position of the run in the script
    steps,            \* the sections of the script that have run
    cols,             \* df.columns
    tzAware,          \* the date column parses to a timezone-aware dtype
    df,               \* the table: raw cells, then (line 57..78) normalized
    min_date, max_date,
    date_input_value, \* what st.sidebar.date_input returned
    start_date, end_date,
    expense_types, selected_types, user_search,
    df_filtered,
    total_spend, avg_daily, best_day, best_day_amt,
    daily,            \* rows [date, amount, avg7] (avg7 is column "7d_avg")
    heatmap, heatmap_empty,
    daily2, outliers,
    csv

vars == <<pc, steps, cols, tzAware, df, min_date, max_date, date_input_value,
          start_date, end_date, expense_types, selected_types, user_search,
          df_filtered, total_spend, avg_daily, best_day, best_day_amt,
          daily, heatmap, heatmap_empty, daily2, outliers, csv>>

----------------------------------------------------------------------------
(* Bounds of the model *)

\* rows of an uploaded table drawn from RowTemplates
MaxRows == 3
\* rows (= distinct days) of an uploaded one-row-per-day table
MaxLen == 8

(* Program constants *)

\* rolling(7, min_periods=1)
Window == 7
MinPeriods == 1
\* daily2["z"] >= 2
Threshold == 2

----------------------------------------------------------------------------
(* Values *)

NaT == <<>>
NaN == <<>>
Null == "NaN"
None == ""
All == "All"

IsNull(c) == c = <<>>
Val(c) == c[1]
\* numeric value of a cell under skipna summation
Num0(c) == IF IsNull(c) THEN 0 ELSE c[1]

expected_cols == {"date", "user_id", "expense_type", "vendor", "amount"}

Weekdays == <<"Monday", "Tuesday", "Wednesday", "Thursday", "Friday", "Saturday", "Sunday">>
\* the same names in the lexical order a sorted pandas index gives them
SortedWeekdays == <<"Friday", "Monday", "Saturday", "Sunday", "Thursday", "Tuesday", "Wednesday">>
MonthNames == <<"January", "February", "March", "April", "May", "June", "July",
                "August", "September", "October", "November", "December">>
MonthDays == <<31, 29, 31, 30, 31, 30, 31, 31, 30, 31, 30, 31>>

Range(s) == {s[i] : i \in DOMAIN s}

----------------------------------------------------------------------------
(* Parsing of raw cells: pd.to_datetime / pd.to_numeric with errors="coerce" *)

\* texts of the days of the one-row-per-day tables
SeriesDates == <<"2024-01-01", "2024-01-02", "2024-01-03", "2024-01-04", "2024-01-05",
                 "2024-01-06", "2024-01-07", "2024-01-08", "2024-01-09", "2024-01-10">>

to_datetime(s) ==
    IF \E i \in DOMAIN SeriesDates : SeriesDates[i] = s
    THEN <<CHOOSE i \in DOMAIN SeriesDates : SeriesDates[i] = s>>
    ELSE IF s = "2024-02-05" THEN <<36>>
    ELSE NaT

to_numeric(s) ==
    CASE s = "100" -> <<100>>
      [] s = "50"  -> <<50>>
      [] s = "20"  -> <<20>>
      [] s = "10"  -> <<10>>
      [] s = "5"   -> <<5>>
      [] s = "-10" -> <<0 - 10>>
      [] OTHER     -> NaN

\* Series.dt.day_name(): 2024-01-01 is a Monday; NaT gives a null
day_name(d) == IF IsNull(d) THEN Null ELSE Weekdays[((Val(d) - 1) % 7) + 1]

RECURSIVE MonthOf(_, _)
MonthOf(ord, m) == IF ord <= MonthDays[m] THEN m ELSE MonthOf(ord - MonthDays[m], m + 1)

\* Series.dt.month_name()
month_name(d) == IF IsNull(d) THEN Null ELSE MonthNames[MonthOf(Val(d), 1)]

----------------------------------------------------------------------------
(* The uploaded table *)

RowTemplates ==
    { [date |-> "2024-01-01", amount |-> "100", expense_type |-> "food",   user_id |-> "u1"],
      [date |-> "2024-01-01", amount |-> "50",  expense_type |-> "food",   user_id |-> "u2"],
      [date |-> "2024-01-02", amount |-> "10",  expense_type |-> "travel", user_id |-> "u1"],
      [date |-> "2024-02-05", amount |-> "-10", expense_type |-> Null,     user_id |-> "u2"],
      [date |-> "n/a",        amount |-> "5",   expense_type |-> "food",   user_id |-> "u1"],
      [date |-> "2024-01-08", amount |-> "abc", expense_type |-> "travel", user_id |-> Null] }

SeriesAmounts == {"10", "100"}

\* the column sets of the uploaded tables: all expected columns, or one missing
ColSets == {expected_cols} \cup {expected_cols \ {c} : c \in expected_cols}

\* a row of a table that has only the columns cs
Project(r, cs) ==
    [date         |-> IF "date" \in cs THEN r.date ELSE Null,
     amount       |-> IF "amount" \in cs THEN r.amount ELSE Null,
     expense_type |-> IF "expense_type" \in cs THEN r.expense_type ELSE Null,
     user_id      |-> IF "user_id" \in cs THEN r.user_id ELSE Null]

Unset == <<>>

InitRest ==
    /\ pc = "loaded"
    /\ steps = {}
    /\ min_date = Unset /\ max_date = Unset
    /\ date_input_value = Unset
    /\ start_date = Unset /\ end_date = Unset
    /\ expense_types = {} /\ selected_types = {} /\ user_search = None
    /\ df_filtered = Unset
    /\ total_spend = 0 /\ avg_daily = Unset /\ best_day = Unset /\ best_day_amt = 0
    /\ daily = Unset
    /\ heatmap = Unset /\ heatmap_empty = FALSE
    /\ daily2 = Unset /\ outliers = Unset
    /\ csv = Unset

\* a table of up to MaxRows rows over the expected columns (or all but one)
InitRows ==
    \E n \in 0..MaxRows : \E rows \in [1..n -> RowTemplates] :
    \E cs \in ColSets : \E tz \in BOOLEAN :
        /\ tz => ("date" \in cs /\ \E i \in 1..n : ~IsNull(to_datetime(rows[i].date)))
        /\ df = [i \in 1..n |-> Project(rows[i], cs)]
        /\ cols = cs
        /\ tzAware = tz

\* a table with columns date and amount only, one row per consecutive day
InitSeries ==
    \E n \in 1..MaxLen : \E a \in [1..n -> SeriesAmounts] :
        /\ df = [i \in 1..n |-> [date |-> SeriesDates[i], amount |-> a[i],
                                 expense_type |-> Null, user_id |-> Null]]
        /\ cols = {"date", "amount"}
        /\ tzAware = FALSE

Init == (InitRows \/ InitSeries) /\ InitRest

----------------------------------------------------------------------------
(* Lines 50-78: required columns, coercion, sort, derived columns *)

\* line 57
ParseDates(t) == [i \in DOMAIN t |-> [t[i] EXCEPT !.date = to_datetime(t[i].date)]]
\* line 64
ParseAmounts(t) == [i \in DOMAIN t |-> [t[i] EXCEPT !.amount = to_numeric(t[i].amount)]]

\* order of sort_values("date"): ascending, NaT last
DateLE(a, b) == IsNull(b) \/ (~IsNull(a) /\ Val(a) <= Val(b))

RECURSIVE InsertByDate(_, _)
InsertByDate(s, r) ==
    IF s = <<>> THEN <<r>>
    ELSE IF DateLE(s[Len(s)].date, r.date) THEN Append(s, r)
    ELSE Append(InsertByDate(SubSeq(s, 1, Len(s) - 1), r), s[Len(s)])

RECURSIVE SortByDate(_)
\* line 73: df.sort_values("date").reset_index(drop=True); rows of equal date keep
\* their order (what numpy's sort does on tables this small)
SortByDate(t) ==
    IF t = <<>> THEN <<>>
    ELSE InsertByDate(SortByDate(SubSeq(t, 1, Len(t) - 1)), t[Len(t)])

\* lines 76-78 (column "week" is never read again and is left out)
Derive(t) ==
    [i \in DOMAIN t |->
        [date |-> t[i].date, amount |-> t[i].amount,
         expense_type |-> t[i].expense_type, user_id |-> t[i].user_id,
         weekday |-> day_name(t[i].date), month |-> month_name(t[i].date)]]

NormalizeTable(t) == Derive(SortByDate(ParseAmounts(ParseDates(t))))

\* lines 56-60: no date column, st.stop()
SchemaErrorDate ==
    /\ pc = "loaded"
    /\ "date" \notin cols
    /\ pc' = "schema_error"
    /\ UNCHANGED <<steps, cols, tzAware, df, min_date, max_date, date_input_value,
                   start_date, end_date, expense_types, selected_types, user_search,
                   df_filtered, total_spend, avg_daily, best_day, best_day_amt,
                   daily, heatmap, heatmap_empty, daily2, outliers, csv>>

\* the run going on past line 67 without the amount column (no st.stop())
SchemaErrorAmountNoStop ==
    /\ pc = "loaded"
    /\ "date" \in cols
    /\ "amount" \notin cols
    /\ df' = NormalizeTable(df)
    /\ pc' = "normalized"
    /\ steps' = steps \cup {"normalize"}
    /\ UNCHANGED <<cols, tzAware, min_date, max_date, date_input_value,
                   start_date, end_date, expense_types, selected_types, user_search,
                   df_filtered, total_spend, avg_daily, best_day, best_day_amt,
                   daily, heatmap, heatmap_empty, daily2, outliers, csv>>

\* lines 56-67: the date column is coerced, then no amount column, st.stop()
SchemaErrorAmount ==
    /\ pc = "loaded"
    /\ "date" \in cols
    /\ "amount" \notin cols
    /\ df' = ParseDates(df)
    /\ pc' = "schema_error"
    /\ UNCHANGED <<steps, cols, tzAware, min_date, max_date, date_input_value,
                   start_date, end_date, expense_types, selected_types, user_search,
                   df_filtered, total_spend, avg_daily, best_day, best_day_amt,
                   daily, heatmap, heatmap_empty, daily2, outliers, csv>>

\* lines 56-78
Normalize ==
    /\ pc = "loaded"
    /\ "date" \in cols
    /\ "amount" \in cols
    /\ df' = NormalizeTable(df)
    /\ pc' = "normalized"
    /\ steps' = steps \cup {"normalize"}
    /\ UNCHANGED <<cols, tzAware, min_date, max_date, date_input_value,
                   start_date, end_date, expense_types, selected_types, user_search,
                   df_filtered, total_spend, avg_daily, best_day, best_day_amt,
                   daily, heatmap, heatmap_empty, daily2, outliers, csv>>

----------------------------------------------------------------------------
(* Lines 81-113: the sidebar controls *)

RECURSIVE SeqMin(_)
SeqMin(s) ==
    IF Len(s) = 1 THEN s[1]
    ELSE LET m == SeqMin(Tail(s)) IN IF s[1] <= m THEN s[1] ELSE m

RECURSIVE SeqMax(_)
SeqMax(s) ==
    IF Len(s) = 1 THEN s[1]
    ELSE LET m == SeqMax(Tail(s)) IN IF s[1] >= m THEN s[1] ELSE m

IsValidDate(r) == ~IsNull(r.date)

\* the values of a datetime column that are not NaT
ValidDates(t) == LET v == SelectSeq(t, IsValidDate) IN [i \in DOMAIN v |-> Val(v[i].date)]

\* line 81: df["date"].min(), NaT when no value is valid
DateMin(t) == IF ValidDates(t) = <<>> THEN NaT ELSE <<SeqMin(ValidDates(t))>>
\* line 82
DateMax(t) == IF ValidDates(t) = <<>> THEN NaT ELSE <<SeqMax(ValidDates(t))>>

\* a day the user can pick that need not be the first or last day of the data
PickDates == {<<2>>}

\* what date_input can return: a tuple of 0, 1 or 2 days (the default is a list of 2)
DateInputs(lo, hi) ==
    LET P == {lo, hi} \cup PickDates
    IN {<<>>} \cup {<<a>> : a \in P} \cup {<<a, b>> : a \in P, b \in P}

\* lines 85-101 (the default is a list, so the widget never returns a single date)
ParseStart(v, lo) == IF Len(v) >= 1 THEN v[1] ELSE lo
ParseEnd(v, hi) == IF Len(v) >= 2 THEN v[2] ELSE IF Len(v) = 1 THEN v[1] ELSE hi

\* lines 104, 110: df[c].dropna().unique()
UniqueTypes(t) == {t[i].expense_type : i \in DOMAIN t} \ {Null}
UniqueUsers(t) == {t[i].user_id : i \in DOMAIN t} \ {Null}

\* line 83: no row has a valid date, and building the widget from NaT raises.
\* Whether it raises is up to the widget library, so ReadControls is enabled in
\* this state too.
DateInputRaises ==
    /\ pc = "normalized"
    /\ IsNull(DateMin(df))
    /\ min_date' = DateMin(df)
    /\ max_date' = DateMax(df)
    /\ pc' = "crashed"
    /\ UNCHANGED <<steps, cols, tzAware, df, date_input_value,
                   start_date, end_date, expense_types, selected_types, user_search,
                   df_filtered, total_spend, avg_daily, best_day, best_day_amt,
                   daily, heatmap, heatmap_empty, daily2, outliers, csv>>

\* lines 81-113
ReadControls ==
    /\ pc = "normalized"
    /\ min_date' = DateMin(df)
    /\ max_date' = DateMax(df)
    /\ \E v \in DateInputs(DateMin(df), DateMax(df)) :
          /\ date_input_value' = v
          /\ start_date' = ParseStart(v, DateMin(df))
          /\ end_date' = ParseEnd(v, DateMax(df))
    /\ expense_types' = IF "expense_type" \in cols THEN UniqueTypes(df) ELSE {}
    /\ selected_types' \in SUBSET expense_types'
    /\ IF "user_id" \in cols
          THEN user_search' \in {All} \cup UniqueUsers(df)
          ELSE user_search' = None
    /\ pc' = "controls"
    /\ UNCHANGED <<steps, cols, tzAware, df,
                   df_filtered, total_spend, avg_daily, best_day, best_day_amt,
                   daily, heatmap, heatmap_empty, daily2, outliers, csv>>

----------------------------------------------------------------------------
(* Lines 116-131: the filters *)

\* line 118 raises (TypeError): a timezone-aware column against a naive Timestamp
CompareRaises(tz, s, e) == tz /\ (~IsNull(s) \/ ~IsNull(e))

\* line 118: a comparison with NaT is False
InRange(d, s, e) ==
    /\ ~IsNull(d) /\ ~IsNull(s) /\ ~IsNull(e)
    /\ Val(d) >= Val(s)
    /\ Val(d) <= Val(e)

\* lines 116-121
DateFilter(t, s, e, tz) ==
    LET keep(r) == InRange(r.date, s, e)
    IN IF CompareRaises(tz, s, e) THEN t ELSE SelectSeq(t, keep)

\* lines 123-124
TypeFilter(t, types, sel) ==
    LET keep(r) == r.expense_type \in sel
    IN IF types # {} /\ sel # {} THEN SelectSeq(t, keep) ELSE t

\* lines 126-127
UserFilter(t, u) ==
    LET keep(r) == r.user_id = u
    IN IF u # None /\ u # All THEN SelectSeq(t, keep) ELSE t

Filtered(t, s, e, tz, types, sel, u) ==
    UserFilter(TypeFilter(DateFilter(t, s, e, tz), types, sel), u)

\* lines 116-131, the filtered table is empty: st.stop()
FilterEmpty ==
    /\ pc = "controls"
    /\ Filtered(df, start_date, end_date, tzAware, expense_types, selected_types, user_search) = <<>>
    /\ df_filtered' = <<>>
    /\ steps' = steps \cup {"filter"}
    /\ pc' = "no_data"
    /\ UNCHANGED <<cols, tzAware, df, min_date, max_date, date_input_value,
                   start_date, end_date, expense_types, selected_types, user_search,
                   total_spend, avg_daily, best_day, best_day_amt,
                   daily, heatmap, heatmap_empty, daily2, outliers, csv>>

\* lines 116-131
ApplyFilters ==
    /\ pc = "controls"
    /\ Filtered(df, start_date, end_date, tzAware, expense_types, selected_types, user_search) # <<>>
    /\ df_filtered' = Filtered(df, start_date, end_date, tzAware,
                               expense_types, selected_types, user_search)
    /\ steps' = steps \cup {"filter"}
    /\ pc' = "filtered"
    /\ UNCHANGED <<cols, tzAware, df, min_date, max_date, date_input_value,
                   start_date, end_date, expense_types, selected_types, user_search,
                   total_spend, avg_daily, best_day, best_day_amt,
                   daily, heatmap, heatmap_empty, daily2, outliers, csv>>

----------------------------------------------------------------------------
(* Lines 139-147: the KPIs *)

RECURSIVE SumAmounts(_)
\* Series.sum(): NaN is skipped, the sum of nothing is 0
SumAmounts(t) == IF t = <<>> THEN 0 ELSE Num0(t[1].amount) + SumAmounts(Tail(t))

RECURSIVE SortedSeq(_)
SortedSeq(S) ==
    IF S = {} THEN <<>>
    ELSE LET m == CHOOSE x \in S : \A y \in S : x <= y
         IN <<m>> \o SortedSeq(S \ {m})

\* the group keys of groupby("date"): NaT is dropped, keys are sorted
DateKeys(t) == SortedSeq({Val(t[i].date) : i \in {j \in DOMAIN t : ~IsNull(t[j].date)}})

\* the amounts by date without the grouping: one row per table row with a date
UngroupedByDate(t) ==
    LET v == SortByDate(SelectSeq(t, IsValidDate))
    IN [i \in DOMAIN v |-> [date |-> v[i].date, amount |-> Num0(v[i].amount)]]

\* groupby("date")["amount"].sum()
GroupByDate(t) ==
    LET ks == DateKeys(t)
    IN [i \in DOMAIN ks |->
           LET inGroup(r) == r.date = <<ks[i]>>
           IN [date |-> <<ks[i]>>, amount |-> SumAmounts(SelectSeq(t, inGroup))]]

\* Series.mean() as an exact fraction; NaN for an empty series
Mean(g) == IF g = <<>> THEN NaN ELSE <<[num |-> SumAmounts([i \in DOMAIN g |-> [amount |-> <<g[i].amount>>]]), den |-> Len(g)]>>

\* Series.idxmax(): the first row holding the maximum
IdxMax(g) == CHOOSE i \in DOMAIN g :
                /\ \A j \in DOMAIN g : g[j].amount <= g[i].amount
                /\ \A j \in 1..(i - 1) : g[j].amount < g[i].amount

\* lines 139-147
KPIs ==
    /\ pc = "filtered"
    /\ total_spend' = SumAmounts(df_filtered)
    /\ LET daily_group == GroupByDate(df_filtered)
       IN /\ avg_daily' = IF daily_group # <<>> THEN Mean(daily_group)
                          ELSE <<[num |-> 0, den |-> 1]>>
          /\ best_day' = IF daily_group # <<>> THEN daily_group[IdxMax(daily_group)].date
                         ELSE Unset
          /\ best_day_amt' = IF daily_group # <<>> THEN daily_group[IdxMax(daily_group)].amount
                             ELSE 0
    /\ steps' = steps \cup {"kpis"}
    /\ pc' = "kpis"
    /\ UNCHANGED <<cols, tzAware, df, min_date, max_date, date_input_value,
                   start_date, end_date, expense_types, selected_types, user_search,
                   df_filtered, daily, heatmap, heatmap_empty, daily2, outliers, csv>>

----------------------------------------------------------------------------
(* Lines 168-169: the daily series and its 7-day moving average *)

\* line 168
DailySeries(t) == SortByDate(GroupByDate(t))

RECURSIVE SumRange(_, _, _)
SumRange(g, lo, hi) == IF lo > hi THEN 0 ELSE g[hi].amount + SumRange(g, lo, hi - 1)

\* a window that reaches one row too far back
WindowStartOneEarly(i) == IF i - Window < 1 THEN 1 ELSE i - Window

\* first row of the window that ends at row i
WindowStart(i) == IF i - Window + 1 < 1 THEN 1 ELSE i - Window + 1

\* rolling(7, min_periods=1).mean() at row i
RollingMean(g, i) ==
    LET lo == WindowStart(i)
        n  == i - lo + 1
    IN IF n >= MinPeriods THEN <<[num |-> SumRange(g, lo, i), den |-> n]>> ELSE NaN

\* line 169
WithRolling(g) ==
    [i \in DOMAIN g |-> [date |-> g[i].date, amount |-> g[i].amount, avg7 |-> RollingMean(g, i)]]

\* lines 168-169
DailyTrend ==
    /\ pc = "kpis"
    /\ daily' = WithRolling(DailySeries(df_filtered))
    /\ steps' = steps \cup {"daily"}
    /\ pc' = "daily"
    /\ UNCHANGED <<cols, tzAware, df, min_date, max_date, date_input_value,
                   start_date, end_date, expense_types, selected_types, user_search,
                   df_filtered, total_spend, avg_daily, best_day, best_day_amt,
                   heatmap, heatmap_empty, daily2, outliers, csv>>

----------------------------------------------------------------------------
(* Lines 193-199: the weekday x month heatmap *)

HasKeys(r) == r.weekday # Null /\ r.month # Null

\* pivot_table(index="weekday", columns="month", values="amount", aggfunc="sum"):
\* one cell per (weekday, month) group, the others NaN; the index is sorted
PivotTable(t) ==
    LET rows == SelectSeq(t, HasKeys)
        present(w) == \E i \in DOMAIN rows : rows[i].weekday = w
        months == {rows[i].month : i \in DOMAIN rows}
        idx == SelectSeq(SortedWeekdays, present)
    IN [index   |-> idx,
        columns |-> months,
        cell    |-> [k \in Range(idx) \X months |->
                       LET inGroup(r) == r.weekday = k[1] /\ r.month = k[2]
                       IN IF SelectSeq(rows, inGroup) = <<>> THEN NaN
                          ELSE <<SumAmounts(SelectSeq(rows, inGroup))>>]]

\* DataFrame.reindex(index=labels): rows in the order of labels, new rows all NaN
Reindex(pt, labels) ==
    [index   |-> labels,
     columns |-> pt.columns,
     cell    |-> [k \in Range(labels) \X pt.columns |->
                    IF k[1] \in Range(pt.index) THEN pt.cell[k] ELSE NaN]]

\* the pivot table left with the rows of the weekdays that occur
HeatmapNotReindexed(t) == PivotTable(t)

\* line 193
Heatmap(t) == Reindex(PivotTable(t), Weekdays)

\* line 194: heatmap.isnull().all().all()
AllNull(h) == \A k \in DOMAIN h.cell : IsNull(h.cell[k])

\* lines 193-199
BuildHeatmap ==
    /\ pc = "daily"
    /\ heatmap' = Heatmap(df_filtered)
    /\ heatmap_empty' = AllNull(Heatmap(df_filtered))
    /\ steps' = steps \cup {"heatmap"}
    /\ pc' = "heatmap"
    /\ UNCHANGED <<cols, tzAware, df, min_date, max_date, date_input_value,
                   start_date, end_date, expense_types, selected_types, user_search,
                   df_filtered, total_spend, avg_daily, best_day, best_day_amt,
                   daily, daily2, outliers, csv>>

----------------------------------------------------------------------------
(* Lines 217-226: z-score outliers of the daily series *)

RECURSIVE SumSq(_)
SumSq(s) == IF s = <<>> THEN 0 ELSE s[1] * s[1] + SumSq(Tail(s))

\* N * (amount - mean) for every row: the deviations, scaled to stay integral
Deviations(g) == [i \in DOMAIN g |-> Len(g) * g[i].amount - SumRange(g, 1, Len(g))]

Sign(x) == IF x > 0 THEN 1 ELSE IF x < 0 THEN 0 - 1 ELSE 0

\* the z-score with a zero standard deviation replaced by 1 instead of NaN
ZScoreStdOne(g, i) ==
    LET d == Deviations(g)
    IN IF g = <<>> THEN NaN
       ELSE IF SumSq(d) = 0 THEN <<[sgn |-> 0, num |-> 0, den |-> 1]>>
       ELSE <<[sgn |-> Sign(d[i]), num |-> Len(g) * d[i] * d[i], den |-> SumSq(d)]>>

\* (amount - mean) / (std(ddof=0) if std(ddof=0) != 0 else nan), exactly:
\* with d = N*(amount - mean), std^2 = sum(d^2) / N^3 and z^2 = N*d^2 / sum(d^2).
\* The mean and std of an empty series are NaN.
ZScore(g, i) ==
    LET d == Deviations(g)
    IN IF g = <<>> \/ SumSq(d) = 0 THEN NaN
       ELSE <<[sgn |-> Sign(d[i]), num |-> Len(g) * d[i] * d[i], den |-> SumSq(d)]>>

\* z >= c for a constant c >= 0; a comparison with NaN is False
ZGe(z, c) == ~IsNull(z) /\ Val(z).sgn >= 0 /\ Val(z).num >= c * c * Val(z).den

\* line 218
WithZ(g) ==
    [i \in DOMAIN g |-> [date |-> g[i].date, amount |-> g[i].amount, avg7 |-> g[i].avg7,
                         z |-> ZScore(g, i)]]

\* the two-sided mask abs(z) >= 2
IsOutlierTwoSided(r) ==
    ~IsNull(r.z) /\ Val(r.z).num >= Threshold * Threshold * Val(r.z).den

\* line 219: the mask daily2["z"] >= 2
IsOutlier(r) == ZGe(r.z, Threshold)

\* lines 217-226
DetectOutliers ==
    /\ pc = "heatmap"
    /\ daily2' = WithZ(daily)
    /\ outliers' = SelectSeq(WithZ(daily), IsOutlier)
    /\ steps' = steps \cup {"outliers"}
    /\ pc' = "outliers"
    /\ UNCHANGED <<cols, tzAware, df, min_date, max_date, date_input_value,
                   start_date, end_date, expense_types, selected_types, user_search,
                   df_filtered, total_spend, avg_daily, best_day, best_day_amt,
                   daily, heatmap, heatmap_empty, csv>>

----------------------------------------------------------------------------
(* Line 263: the export *)

\* the text of a timestamp; NaT is written as the empty field
DateText(d) == IF IsNull(d) THEN ""
               ELSE IF Val(d) \in DOMAIN SeriesDates THEN SeriesDates[Val(d)]
               ELSE "2024-02-05"

TextField(c) == IF c = Null THEN "" ELSE c

\* df_filtered.to_csv(index=False): amounts stay numbers here, NaN is the empty field
ToCsv(t) ==
    [i \in DOMAIN t |->
        [date |-> DateText(t[i].date), amount |-> t[i].amount,
         expense_type |-> TextField(t[i].expense_type), user_id |-> TextField(t[i].user_id),
         weekday |-> TextField(t[i].weekday), month |-> TextField(t[i].month)]]

\* line 263
Export ==
    /\ pc = "outliers"
    /\ csv' = ToCsv(df_filtered)
    /\ steps' = steps \cup {"export"}
    /\ pc' = "done"
    /\ UNCHANGED <<cols, tzAware, df, min_date, max_date, date_input_value,
                   start_date, end_date, expense_types, selected_types, user_search,
                   df_filtered, total_spend, avg_daily, best_day, best_day_amt,
                   daily, heatmap, heatmap_empty, daily2, outliers>>

----------------------------------------------------------------------------

Next ==
    \/ SchemaErrorDate \/ SchemaErrorAmount \/ Normalize
    \/ DateInputRaises \/ ReadControls
    \/ FilterEmpty \/ ApplyFilters
    \/ KPIs \/ DailyTrend \/ BuildHeatmap \/ DetectOutliers \/ Export

Spec == Init /\ [][Next]_vars

----------------------------------------------------------------------------
(* Properties *)

Ran(step) == step \in steps

RECURSIVE SumOver(_, _)
\* sum of f over the finite index set S
SumOver(f, S) ==
    IF S = {} THEN 0
    ELSE LET i == CHOOSE x \in S : TRUE IN f[i] + SumOver(f, S \ {i})

\* amounts of a table's rows, an absent amount counting for nothing
AmountOf(t) == [i \in DOMAIN t |-> Num0(t[i].amount)]
\* totals of a daily series
TotalOf(g) == [i \in DOMAIN g |-> g[i].amount]

Inverted == ~IsNull(start_date) /\ ~IsNull(end_date) /\ Val(start_date) > Val(end_date)
Ordered == ~IsNull(start_date) /\ ~IsNull(end_date) /\ Val(start_date) <= Val(end_date)

\* C1: with start_date > end_date the filtered table is the one the full observed
\* span [min_date, max_date] gives under the same category and user selections.
C1_InvertedRangeIsFullSpan ==
    (Ran("filter") /\ Inverted) =>
        df_filtered = Filtered(df, min_date, max_date, tzAware,
                               expense_types, selected_types, user_search)

\* C2: after normalization and before any filter, every row of the table has a
\* non-null date and a non-null amount.
C2_NormalizedRowsAreValid ==
    pc = "normalized" =>
        \A i \in DOMAIN df : ~IsNull(df[i].date) /\ ~IsNull(df[i].amount)

\* C3: with start_date <= end_date the filtered table is exactly the rows whose date
\* is in [start_date, end_date], whose expense_type is selected (or every category is
\* selected) and whose user_id is the selected user (or no user is selected).
C3_FilterIsExact ==
    (Ran("filter") /\ Ordered) =>
        LET allTypes == selected_types = expense_types
            allUsers == user_search \in {All, None}
            wanted(r) == /\ InRange(r.date, start_date, end_date)
                         /\ (allTypes \/ r.expense_type \in selected_types)
                         /\ (allUsers \/ r.user_id = user_search)
        IN df_filtered = SelectSeq(df, wanted)

\* C4: a daily point is listed as an outlier exactly when the population standard
\* deviation of the daily totals is not zero and (amount - mean) / std >= 2, so no
\* point at or below the mean is listed.  With n points, S their sum and Q the sum
\* of their squares, n^2 * std^2 = n*Q - S^2 and n * (amount - mean) = n*amount - S.
C4_OutliersOneSided ==
    Ran("outliers") =>
        LET n == Len(daily2)
            a == TotalOf(daily2)
            S == SumOver(a, 1..n)
            Q == SumOver([i \in 1..n |-> a[i] * a[i]], 1..n)
            var == n * Q - S * S
            listed(i) == \E j \in DOMAIN outliers : outliers[j].date = daily2[i].date
        IN /\ \A j \in DOMAIN outliers : \E i \in 1..n : outliers[j] = daily2[i]
           /\ \A i \in 1..n :
                /\ listed(i) <=> /\ var # 0
                                 /\ n * a[i] - S >= 0
                                 /\ (n * a[i] - S) * (n * a[i] - S) >= 4 * var
                /\ n * a[i] <= S => ~listed(i)

\* a point exactly two standard deviations above the mean is listed
C4_Witness ==
    /\ Ran("outliers")
    /\ Len(daily2) >= 5
    /\ Len(outliers) = 1
    /\ Val(outliers[1].z).sgn = 1
    /\ Val(outliers[1].z).num = 4 * Val(outliers[1].z).den

C6_RollingMeanTrailing ==
    Ran("daily") =>
        \A i \in DOMAIN daily :
            LET lo == IF i - 6 > 1 THEN i - 6 ELSE 1
                W == lo..i
            IN /\ ~IsNull(daily[i].avg7)
               /\ Val(daily[i].avg7).den > 0
               /\ Val(daily[i].avg7).num * Cardinality(W)
                     = SumOver(TotalOf(daily), W) * Val(daily[i].avg7).den
               /\ i = 1 => Val(daily[i].avg7).num = daily[1].amount * Val(daily[i].avg7).den

\* a series longer than the window, whose first point has left the last window and
\* would change its mean
C6_Witness ==
    /\ Ran("daily")
    /\ Len(daily) > 7
    /\ daily[1].amount # daily[8].amount

\* C7: the daily series has one row per distinct date of the filtered table and no
\* other, its dates strictly increase, and each total is the sum of the amounts of
\* the filtered rows of that date.
C7_DailyOnePerDate ==
    Ran("daily") =>
        LET rowsOf(d) == {i \in DOMAIN df_filtered : df_filtered[i].date = d}
        IN /\ df_filtered # <<>>
           /\ {daily[i].date : i \in DOMAIN daily}
                 = {df_filtered[i].date : i \in DOMAIN df_filtered} \ {NaT}
           /\ \A i \in DOMAIN daily : \A j \in DOMAIN daily :
                 i < j => Val(daily[i].date) < Val(daily[j].date)
           /\ \A i \in DOMAIN daily :
                 daily[i].amount = SumOver(AmountOf(df_filtered), rowsOf(daily[i].date))

\* two filtered rows of one date and a row of another date
C7_Witness ==
    /\ Ran("daily")
    /\ Len(daily) = 2
    /\ Len(df_filtered) = 3
    /\ daily[1].amount = 150

\* C8: the cross-tab has the seven weekday rows Monday..Sunday; a cell is not absent
\* exactly when a filtered row has its weekday and month, and then holds the sum of
\* those rows' amounts; the empty cross-tab is signalled exactly when every cell is
\* absent; a filtered table of one weekday and one month gives one non-absent cell
\* and six all-absent rows.
C8_CrossTab ==
    Ran("heatmap") =>
        LET rowsOf(w, m) == {i \in DOMAIN df_filtered :
                                df_filtered[i].weekday = w /\ df_filtered[i].month = m}
            present(w, m) == m \in heatmap.columns /\ ~IsNull(heatmap.cell[<<w, m>>])
            cells == {k \in Range(Weekdays) \X Range(MonthNames) : present(k[1], k[2])}
            days == {df_filtered[i].weekday : i \in DOMAIN df_filtered} \ {Null}
            months == {df_filtered[i].month : i \in DOMAIN df_filtered} \ {Null}
        IN /\ heatmap.index = Weekdays
           /\ DOMAIN heatmap.cell = Range(Weekdays) \X heatmap.columns
           /\ heatmap.columns \subseteq Range(MonthNames)
           /\ \A w \in Range(Weekdays) : \A m \in Range(MonthNames) :
                /\ present(w, m) <=> rowsOf(w, m) # {}
                /\ present(w, m) =>
                      Val(heatmap.cell[<<w, m>>]) = SumOver(AmountOf(df_filtered), rowsOf(w, m))
           /\ heatmap_empty <=> cells = {}
           /\ (Cardinality(days) = 1 /\ Cardinality(months) = 1) =>
                /\ Cardinality(cells) = 1
                /\ Cardinality({w \in Range(Weekdays) :
                                   \A m \in heatmap.columns : ~present(w, m)}) = 6

\* several filtered rows, all of one weekday and one month, on different dates
C8_Witness ==
    /\ Ran("heatmap")
    /\ Len(daily) >= 2
    /\ Cardinality({df_filtered[i].weekday : i \in DOMAIN df_filtered}) = 1
    /\ Cardinality({df_filtered[i].month : i \in DOMAIN df_filtered}) = 1
    /\ ~heatmap_empty

\* C9: a table without the date or the amount column ends in the schema error, where
\* no filter, aggregation, trend, cross-tab, outlier or export section has run and
\* none can; a table that has both never ends there, whatever else is missing.
C9_SchemaErrorStops ==
    LET missing == "date" \notin cols \/ "amount" \notin cols
    IN /\ missing => pc \in {"loaded", "schema_error"}
       /\ pc = "schema_error" =>
            /\ missing
            /\ steps = {}
            /\ df_filtered = Unset /\ daily = Unset /\ heatmap = Unset
            /\ daily2 = Unset /\ outliers = Unset /\ csv = Unset
            /\ ~ENABLED Next

\* the run stopped on a table that has a date column and no amount column
C9_Witness ==
    /\ pc = "schema_error"
    /\ "date" \in cols
    /\ "amount" \notin cols

\* C10: past the empty-result check the totals of the daily series add up to the
\* Total Spend KPI.
C10_DailyTotalsAddUp ==
    Ran("daily") => SumOver(TotalOf(daily), DOMAIN daily) = total_spend

====
